---- MODULE Spec2Model ----
(***************************************************************************)
(* A model of file_monitor.py: the configuration read from the             *)
(* environment, the Status Reporter, the Notifier, the Existence Checker,  *)
(* the Downloader, the Scan Loop and the Scheduler/Driver (main).          *)
(*                                                                         *)
(* The process is single threaded.  One scan pass (check_new_files) is a   *)
(* loop over candidates whose body performs blocking network calls; the    *)
(* model takes one step per candidate (one call of process_file together   *)
(* with the loop bookkeeping that follows it), and the step that handles   *)
(* the last candidate of a pass also performs the wrap-around, the break   *)
(* and the calls that follow the loop.                                     *)
(***************************************************************************)
EXTENDS Integers, Sequences, FiniteSets, TLC

\* ------------------------------------------------------------------ bounds
\* START_INDEX and END_INDEX are drawn from -MaxIndex .. MaxIndex.
MaxIndex == 1
\* The clock stops after MaxTime ticks of time.sleep(1).
MaxTime == 3
\* Number of ticks of the check interval and of the report interval.
CheckTicks == 2
ReportTicks == 3
\* At most MaxPresent existence probes of one run are answered with 200.
MaxPresent == 2

\* --------------------------------------------------------------- variables
VARIABLES
    \* module-level configuration (lines 14-25), fixed after the import
    BOT_TOKEN, CHAT_ID, MONITOR_TOKEN, START_INDEX, END_INDEX,
    SUPPORTED_EXTENSIONS,
    \* FileMonitor
    current_index, found_files,
    \* StatusReporter: a record of its fields
    status_reporter,
    \* locals of check_new_files, and the position in the for loop
    files_found, files_downloaded, ext_pos,
    \* the download directory: file name -> content
    dir,
    \* main: position of the driver, who called the running pass, the exit status
    pc, caller, exit_code,
    \* the clock and the two jobs of the scheduler
    now, check_next_run, report_next_run,
    \* the environment: how many more probes may be answered with 200
    present_left,
    \* history: the I/O of the last step and the last process_file call
    io, last,
    \* history: the check_new_files calls entered and returned, and the
    \* arguments of every update_stats call, in order
    passes_started, passes_returned, stats_log,
    \* history: the pass that is running or has just returned: the cursor at
    \* its start and the candidates it handled
    pass,
    \* history: URLs for which download_file returned True, and URLs for
    \* which it returned False
    downloaded_ok, failed_downloads

vars == << BOT_TOKEN, CHAT_ID, MONITOR_TOKEN, START_INDEX, END_INDEX,
           SUPPORTED_EXTENSIONS, current_index, found_files, status_reporter,
           files_found, files_downloaded, ext_pos, dir, pc, caller, exit_code,
           now, check_next_run, report_next_run, present_left, io, last,
           passes_started, passes_returned, stats_log, pass, downloaded_ok,
           failed_downloads >>

config == << BOT_TOKEN, CHAT_ID, MONITOR_TOKEN, START_INDEX, END_INDEX,
             SUPPORTED_EXTENSIONS >>

\* ------------------------------------------------------------ environment
\* An environment variable: unset, or set to a string (a sequence of characters).
Unset == [set |-> FALSE, val |-> << >>]

EnvStr(s) == [set |-> TRUE, val |-> s]

\* os.getenv(name, default) for a string default
GetEnv(env, default) == IF env.set THEN env.val ELSE default

\* os.getenv(name): None when unset; `not x` is true of None and of ""
Falsy(env) == ~env.set \/ env.val = << >>

\* str.split(","): the pieces between the commas, never an empty list
RECURSIVE SplitFrom(_, _, _)
SplitFrom(s, i, piece) ==
    IF i > Len(s) THEN << piece >>
    ELSE IF s[i] = "," THEN << piece >> \o SplitFrom(s, i + 1, << >>)
    ELSE SplitFrom(s, i + 1, Append(piece, s[i]))

Split(s) == SplitFrom(s, 1, << >>)

\* the default of SUPPORTED_EXTENSIONS, "txt,zip"
DefaultExtensions == << "t", "x", "t", ",", "z", "i", "p" >>

\* the values of the environment the model draws from
TokenEnvs == { Unset, EnvStr(<< >>), EnvStr(<< "k" >>) }

ChatIds == { 0, 7 }

IndexValues == (0 - MaxIndex) .. MaxIndex

ExtensionEnvs == { Unset, EnvStr(<< >>), EnvStr(<< "a", ",", "a" >>) }

\* --------------------------------------------------------- names and URLs
\* f"file_{index}.{ext}"
Filename(index, ext) == [index |-> index, ext |-> ext]

\* f"{BASE_URL}/{filename}"
Url(filename) == << "BASE_URL", "/", filename >>

\* a path of the download directory: os.path.splitext(filename) gives
\* (file_{index}, .{ext}); k = 0 is the name itself, k >= 1 is
\* f"{base_name}_{k}{ext}"
Path(filename, k) == [index |-> filename.index, ext |-> filename.ext, k |-> k]

\* --------------------------------------------------------------- exceptions
NoExc == "none"

Exceptions == { "RequestException", "ValueError", "ZeroDivisionError" }

\* ------------------------------------------------------------------ Notifier
\* The I/O of a call is a sequence of events: "log_info", "log_error" (a line
\* of the log), "send" (an entry of send_telegram_message), "post", "head",
\* "get" (a network request), "write" (a file of the download directory is
\* opened for writing).
\* print_status(message, is_error) with notify_telegram left False: the log
\* line of lines 114-117 and nothing else
LogStatus(is_error) ==
    IF is_error THEN << "log_error" >> ELSE << "log_info" >>

\* except requests.RequestException (line 158)
SendCatches(exc) == exc = "RequestException"

\* a send_telegram_message without the test of CHAT_ID
SendWithoutGuard(chat, post_ok) ==
    IF post_ok THEN << "send", "post" >>
    ELSE << "send", "post" >> \o LogStatus(TRUE)

\* send_telegram_message(message); post_ok: requests.post returns, or raises
\* a RequestException
SendTelegramMessage(chat, post_ok) ==
    IF chat = 0
    THEN << "send" >> \o LogStatus(TRUE)
    ELSE IF post_ok
         THEN << "send", "post" >>
         ELSE IF SendCatches("RequestException")
              THEN << "send", "post" >> \o LogStatus(TRUE)
              ELSE << "send", "post", "raise" >>

\* print_status(message, is_error, notify_telegram)
PrintStatus(is_error, notify_telegram, chat, post_ok) ==
    LogStatus(is_error)
    \o (IF notify_telegram /\ chat # 0
        THEN SendTelegramMessage(chat, post_ok)
        ELSE << >>)

\* -------------------------------------------------------- Existence Checker
\* A response header content-length: absent, or present with a text that is
\* a number or is not.
NoHeader == [present |-> FALSE, numeric |-> TRUE, val |-> 0]

Headers == { NoHeader,
             [present |-> TRUE, numeric |-> TRUE, val |-> 5],
             [present |-> TRUE, numeric |-> FALSE, val |-> 0] }

\* the content-length headers of the answers to a GET (line 216 reads an
\* absent header as 0, which download_file treats as it treats a numeric one)
SentHeaders == { h \in Headers : h.present }

\* int(response.headers.get("content-length", 0))
ContentLength(h) ==
    IF ~h.present THEN [exc |-> NoExc, val |-> 0]
    ELSE IF h.numeric THEN [exc |-> NoExc, val |-> h.val]
    ELSE [exc |-> "ValueError", val |-> 0]

\* the outcomes of requests.head(url, timeout=10)
TransportFailure == [kind |-> "transport", status |-> 0, clen |-> NoHeader]

Statuses == { 200, 404 }

\* (the headers of a response whose status is not 200 are not read)
ProbeOutcomes ==
    { TransportFailure,
      [kind |-> "response", status |-> 404, clen |-> NoHeader] }
    \cup { [kind |-> "response", status |-> 200, clen |-> h] : h \in Headers }

\* a check_file_exists without its except clause
CheckCatchesNothing(exc) == FALSE

\* except requests.RequestException (line 188)
CheckCatches(exc) == exc = "RequestException"

\* the try block of check_file_exists (lines 183-187)
CheckTry(probe) ==
    IF probe.kind = "transport"
    THEN [exc |-> "RequestException", exists |-> FALSE, size |-> 0]
    ELSE IF probe.status = 200
         THEN LET n == ContentLength(probe.clen)
              IN  [exc |-> n.exc, exists |-> n.exc = NoExc, size |-> n.val]
         ELSE [exc |-> NoExc, exists |-> FALSE, size |-> 0]

\* lines 188-192: the except clause around the try block, whose outcome is t
CheckExcept(t, chat, post_ok) ==
    IF t.exc # NoExc /\ CheckCatches(t.exc)
    THEN [exc |-> NoExc, exists |-> FALSE, size |-> 0,
          io |-> << "head" >> \o PrintStatus(TRUE, TRUE, chat, post_ok)]
    ELSE [exc |-> t.exc, exists |-> t.exists, size |-> t.size,
          io |-> << "head" >>]

\* check_file_exists(url): what it returns or raises, and its I/O
CheckFileExists(probe, chat, post_ok) ==
    CheckExcept(CheckTry(probe), chat, post_ok)

\* --------------------------------------------------------------- Downloader
\* the outcomes of requests.get(url, timeout=30, stream=True) and of what
\* follows it: body_ok is whether reading the body (response.content,
\* response.text) succeeds, zero_time whether the two readings of
\* datetime.now() are equal
GetFailure ==
    [kind |-> "transport", status |-> 0, clen |-> NoHeader,
     body_ok |-> FALSE, zero_time |-> FALSE]

\* (fields that the code does not read in a case keep one value there)
DownloadOutcomes ==
    { GetFailure }
    \cup { [kind |-> "response", status |-> 404, clen |-> NoHeader,
            body_ok |-> b, zero_time |-> FALSE] : b \in BOOLEAN }
    \cup { [kind |-> "response", status |-> 200, clen |-> h,
            body_ok |-> FALSE, zero_time |-> FALSE] : h \in SentHeaders }
    \cup { [kind |-> "response", status |-> 200, clen |-> h,
            body_ok |-> TRUE, zero_time |-> z] :
             h \in { g \in SentHeaders : ContentLength(g).exc = NoExc },
             z \in BOOLEAN }

\* os.path.exists(final_path)
Exists(d, path) == path \in DOMAIN d

\* a download_file without the while loop: the requested name is used
ResolveWithoutLoop(d, filename, final_path, counter) ==
    [final_path |-> final_path, counter |-> counter]

\* the while loop of lines 206-209: the final path and the final counter
RECURSIVE ResolvePath(_, _, _, _)
ResolvePath(d, filename, final_path, counter) ==
    IF Exists(d, final_path)
    THEN ResolvePath(d, filename, Path(filename, counter), counter + 1)
    ELSE [final_path |-> final_path, counter |-> counter]

\* open(final_path, "wb"): the file is created, or truncated, and is empty
OpenWb(d, path) == [p \in DOMAIN d \cup { path } |-> IF p = path THEN "" ELSE d[p]]

\* f.write(response.content)
WriteBody(d, path) == [d EXCEPT ![path] = "body"]

\* lines 212-235: after the while loop has found the free path r
WriteAndReport(d, r, n, dl, chat, post_ok) ==
    IF n.exc # NoExc
    THEN [exc |-> n.exc, ok |-> FALSE, dir |-> d, io |-> << >>]
    ELSE IF ~dl.body_ok
    THEN [exc |-> "RequestException", ok |-> FALSE,
          dir |-> OpenWb(d, r.final_path), io |-> << "write" >>]
    ELSE IF dl.zero_time
    THEN [exc |-> "ZeroDivisionError", ok |-> FALSE,
          dir |-> WriteBody(OpenWb(d, r.final_path), r.final_path),
          io |-> << "write" >>]
    ELSE [exc |-> NoExc, ok |-> TRUE,
          dir |-> WriteBody(OpenWb(d, r.final_path), r.final_path),
          io |-> << "write" >> \o PrintStatus(FALSE, TRUE, chat, post_ok)]

\* line 214: the renaming is logged
Renamed(r, b) ==
    [b EXCEPT !.io = (IF r.counter > 1 THEN << "log_info" >> ELSE << >>) \o @]

\* lines 200-235, the branch of status 200
DownloadSuccessBranch(d, filename, dl, chat, post_ok) ==
    Renamed(ResolvePath(d, filename, Path(filename, 0), 1),
            WriteAndReport(d, ResolvePath(d, filename, Path(filename, 0), 1),
                           ContentLength(dl.clen), dl, chat, post_ok))

\* lines 196-198: the download is logged and the request made
Started(b) == [b EXCEPT !.io = << "log_info", "get" >> \o @]

\* the try block of download_file (lines 196-244)
DownloadTry(d, filename, dl, chat, post_ok) ==
    IF dl.kind = "transport"
    THEN Started([exc |-> "RequestException", ok |-> FALSE, dir |-> d,
                  io |-> << >>])
    ELSE IF dl.status = 200
    THEN Started(DownloadSuccessBranch(d, filename, dl, chat, post_ok))
    ELSE IF ~dl.body_ok
    THEN Started([exc |-> "RequestException", ok |-> FALSE, dir |-> d,
                  io |-> << >>])
    ELSE Started([exc |-> NoExc, ok |-> FALSE, dir |-> d,
                  io |-> PrintStatus(TRUE, TRUE, chat, post_ok)])

\* except requests.RequestException (line 245)
DownloadCatches(exc) == exc = "RequestException"

\* an except clause of download_file that returns True
DownloadExceptReturnsTrue(t, chat, post_ok) ==
    IF t.exc # NoExc /\ DownloadCatches(t.exc)
    THEN [exc |-> NoExc, ok |-> TRUE, dir |-> t.dir,
          io |-> t.io \o PrintStatus(TRUE, TRUE, chat, post_ok)]
    ELSE t

\* lines 245-251: the except clause around the try block, whose outcome is t
DownloadExcept(t, chat, post_ok) ==
    IF t.exc # NoExc /\ DownloadCatches(t.exc)
    THEN [exc |-> NoExc, ok |-> FALSE, dir |-> t.dir,
          io |-> t.io \o PrintStatus(TRUE, TRUE, chat, post_ok)]
    ELSE t

\* download_file(url, filename): what it returns or raises, the directory
\* after it, and its I/O
DownloadFile(d, filename, dl, chat, post_ok) ==
    DownloadExcept(DownloadTry(d, filename, dl, chat, post_ok), chat, post_ok)

\* ------------------------------------------------------------- process_file
\* a process_file that catches requests.RequestException only
ProcessCatchesTransportOnly(exc) == exc = "RequestException"

\* except Exception (line 279): every exception of the model is an Exception
ProcessCatches(exc) == exc \in Exceptions

\* a seen-set that keeps the last URL only
AddReplaces(found, url) == { url }

\* self.found_files.add(url) (line 276)
Add(found, url) == found \cup { url }

\* a process_file that downloads before it announces the new file
FoundBranchDownloadsFirst(found, d, url, chk, alert, got) ==
    IF chk.exc # NoExc \/ ~chk.exists
    THEN [exc |-> chk.exc, ret |-> << FALSE, FALSE >>, found_files |-> found,
          dir |-> d, io |-> chk.io, dl_called |-> FALSE, dl_ok |-> FALSE]
    ELSE [exc |-> got.exc,
          ret |-> << got.exc = NoExc, got.exc = NoExc /\ got.ok >>,
          found_files |-> IF got.exc = NoExc /\ got.ok
                          THEN Add(found, url) ELSE found,
          dir |-> got.dir, io |-> chk.io \o got.io \o alert,
          dl_called |-> TRUE, dl_ok |-> got.exc = NoExc /\ got.ok]

\* lines 265-278: chk is what check_file_exists gave, alert the I/O of the
\* new-file notification and got what download_file gave
FoundBranch(found, d, url, chk, alert, got) ==
    IF chk.exc # NoExc
    THEN [exc |-> chk.exc, ret |-> << FALSE, FALSE >>, found_files |-> found,
          dir |-> d, io |-> chk.io, dl_called |-> FALSE, dl_ok |-> FALSE]
    ELSE IF ~chk.exists
    THEN [exc |-> NoExc, ret |-> << FALSE, FALSE >>, found_files |-> found,
          dir |-> d, io |-> chk.io, dl_called |-> FALSE, dl_ok |-> FALSE]
    ELSE IF got.exc # NoExc
    THEN [exc |-> got.exc, ret |-> << FALSE, FALSE >>, found_files |-> found,
          dir |-> got.dir, io |-> chk.io \o alert \o got.io,
          dl_called |-> TRUE, dl_ok |-> FALSE]
    ELSE IF got.ok
    THEN [exc |-> NoExc, ret |-> << TRUE, TRUE >>,
          found_files |-> Add(found, url),
          dir |-> got.dir, io |-> chk.io \o alert \o got.io,
          dl_called |-> TRUE, dl_ok |-> TRUE]
    ELSE [exc |-> NoExc, ret |-> << TRUE, FALSE >>, found_files |-> found,
          dir |-> got.dir, io |-> chk.io \o alert \o got.io,
          dl_called |-> TRUE, dl_ok |-> FALSE]

\* the try block of process_file (lines 264-278)
ProcessTry(found, d, filename, probe, dl, chat, post_ok) ==
    FoundBranch(found, d, Url(filename),
                CheckFileExists(probe, chat, post_ok),
                SendTelegramMessage(chat, post_ok),
                DownloadFile(d, filename, dl, chat, post_ok))

\* a process_file without the test of the seen-set
NeverSeen(found, url) == FALSE

\* the test of line 259
AlreadySeen(found, url) == url \in found

\* lines 262 and 279-283: the check is logged, and the except clause around
\* the try block, whose outcome is t
ProcessExcept(t, chat, post_ok) ==
    IF t.exc # NoExc /\ ProcessCatches(t.exc)
    THEN [exc |-> NoExc, ret |-> << FALSE, FALSE >>,
          found_files |-> t.found_files, dir |-> t.dir,
          io |-> << "log_info" >> \o t.io
                 \o PrintStatus(TRUE, TRUE, chat, post_ok),
          probed |-> TRUE, dl_called |-> t.dl_called, dl_ok |-> t.dl_ok]
    ELSE [exc |-> t.exc, ret |-> t.ret,
          found_files |-> t.found_files, dir |-> t.dir,
          io |-> << "log_info" >> \o t.io,
          probed |-> TRUE, dl_called |-> t.dl_called, dl_ok |-> t.dl_ok]

\* process_file(index, ext): what it returns or raises, the seen-set and the
\* directory after it, and its I/O
ProcessFile(found, d, index, ext, probe, dl, chat, post_ok) ==
    IF AlreadySeen(found, Url(Filename(index, ext)))
    THEN [exc |-> NoExc, ret |-> << FALSE, FALSE >>, found_files |-> found,
          dir |-> d, io |-> << >>, probed |-> FALSE,
          dl_called |-> FALSE, dl_ok |-> FALSE]
    ELSE ProcessExcept(ProcessTry(found, d, Filename(index, ext), probe, dl,
                                  chat, post_ok),
                       chat, post_ok)

\* ----------------------------------------------------------- StatusReporter
\* StatusReporter.__init__ (lines 32-38); last_check_time is << >> for None
\* and << t >> for a time
NewStatusReporter ==
    [files_found |-> 0, files_downloaded |-> 0, last_check_time |-> << >>,
     current_index |-> 0, checks_performed |-> 0]

\* an update_stats that assigns the counts instead of adding them
UpdateStatsAssigns(sr, f, d, t) ==
    [sr EXCEPT !.files_found = f,
               !.files_downloaded = d,
               !.last_check_time = << t >>,
               !.checks_performed = @ + 1]

\* update_stats(files_found, files_downloaded) at time t
UpdateStats(sr, f, d, t) ==
    [sr EXCEPT !.files_found = @ + f,
               !.files_downloaded = @ + d,
               !.last_check_time = << t >>,
               !.checks_performed = @ + 1]

\* ---------------------------------------------------------- validate_config
ValidateConfig(bot, chat, mon, start, end, exts) ==
    IF Falsy(bot) THEN "ValueError"
    ELSE IF chat = 0 THEN "ValueError"
    ELSE IF Falsy(mon) THEN "ValueError"
    ELSE IF start > end THEN "ValueError"
    ELSE IF exts = << >> THEN "ValueError"
    ELSE NoExc

\* --------------------------------------------------------------------- Init
\* a download directory left by earlier runs: empty, or holding file_0.<ext>
\* for the first configured extension
InitDirs(exts) ==
    LET f == Filename(0, exts[1])
    IN  { << >>,
          [p \in { Path(f, 0) } |-> "old"] }

\* no pass is running or has just returned
NoPass == [state |-> "none", start |-> 0, handled |-> { }]

\* no process_file call was made in the last step
NoCall ==
    [called |-> FALSE, index |-> 0, ext |-> << >>, seen |-> FALSE,
     failed_before |-> FALSE,
     probed |-> FALSE, probe |-> TransportFailure,
     check |-> [exc |-> NoExc, exists |-> FALSE, size |-> 0],
     dl_called |-> FALSE, dl |-> GetFailure, dl_ok |-> FALSE,
     ret |-> << FALSE, FALSE >>, d_found |-> 0, d_downloaded |-> 0,
     raised |-> NoExc]

Init ==
    /\ BOT_TOKEN \in TokenEnvs
    /\ CHAT_ID \in ChatIds
    /\ MONITOR_TOKEN \in TokenEnvs
    /\ START_INDEX \in IndexValues
    /\ END_INDEX \in IndexValues
    /\ \E e \in ExtensionEnvs :
          SUPPORTED_EXTENSIONS = Split(GetEnv(e, DefaultExtensions))
    /\ dir \in InitDirs(SUPPORTED_EXTENSIONS)
    /\ current_index = 0
    /\ found_files = { }
    /\ status_reporter = NewStatusReporter
    /\ files_found = 0
    /\ files_downloaded = 0
    /\ ext_pos = 1
    /\ pc = "boot"
    /\ caller = "main"
    /\ exit_code = << >>
    /\ now = 0
    /\ check_next_run = 0
    /\ report_next_run = 0
    /\ present_left = MaxPresent
    /\ io = << >>
    /\ last = NoCall
    /\ passes_started = 0
    /\ passes_returned = 0
    /\ stats_log = << >>
    /\ pass = NoPass
    /\ downloaded_ok = { }
    /\ failed_downloads = { }

\* ------------------------------------------------------------------ actions
\* except Exception in main (line 347)
MainCatches(exc) == exc \in Exceptions

\* lines 347-352: the handler of main logs, notifies and main returns
MainHandler(post_ok) ==
    /\ io' = << "log_error" >> \o SendTelegramMessage(CHAT_ID, post_ok)
             \o << "log_info" >>
    /\ pc' = "stopped"
    /\ exit_code' = << 0 >>

\* FileMonitor.__init__ (lines 163-178)
NewMonitor(post_ok) ==
    /\ current_index' = 0
    /\ found_files' = { }
    /\ status_reporter' = NewStatusReporter
    /\ io' = << "log_info" >> \o SendTelegramMessage(CHAT_ID, post_ok)

\* main, lines 322-336: validate the configuration, construct the monitor
\* and register the two jobs
Startup ==
    /\ pc = "boot"
    /\ \E post_ok \in BOOLEAN :
         IF ValidateConfig(BOT_TOKEN, CHAT_ID, MONITOR_TOKEN, START_INDEX,
                           END_INDEX, SUPPORTED_EXTENSIONS) # NoExc
         THEN /\ MainHandler(post_ok)
              /\ UNCHANGED << current_index, found_files, status_reporter,
                              check_next_run, report_next_run, caller >>
         ELSE /\ NewMonitor(post_ok)
              /\ check_next_run' = now + CheckTicks
              /\ report_next_run' = now + ReportTicks
              /\ pc' = "initial"
              /\ caller' = "main"
              /\ UNCHANGED exit_code
    /\ last' = NoCall
    /\ UNCHANGED << config, files_found, files_downloaded, ext_pos, dir, now,
                    present_left, passes_started, passes_returned,
                    stats_log, pass, downloaded_ok, failed_downloads >>

\* a check_new_files that records a pass only when it found something
AfterLoopSkipsEmpty(who, f, d, index) ==
    /\ status_reporter' =
         IF f = 0 /\ d = 0
         THEN [status_reporter EXCEPT !.current_index = index]
         ELSE [UpdateStats(status_reporter, f, d, now)
                 EXCEPT !.current_index = index]
    /\ stats_log' = IF f = 0 /\ d = 0 THEN stats_log
                    ELSE Append(stats_log, << f, d >>)
    /\ passes_returned' = passes_returned + 1
    /\ IF who = "main"
       THEN /\ pc' = "loop"
            /\ UNCHANGED check_next_run
       ELSE /\ pc' = IF now >= report_next_run THEN "report" ELSE "sleep"
            /\ check_next_run' = now + CheckTicks

\* a check_new_files that passes its two counts to update_stats in the
\* wrong order
AfterLoopSwapsCounts(who, f, d, index) ==
    /\ status_reporter' =
         [UpdateStats(status_reporter, d, f, now) EXCEPT !.current_index = index]
    /\ stats_log' = Append(stats_log, << d, f >>)
    /\ passes_returned' = passes_returned + 1
    /\ IF who = "main"
       THEN /\ pc' = "loop"
            /\ UNCHANGED check_next_run
       ELSE /\ pc' = IF now >= report_next_run THEN "report" ELSE "sleep"
            /\ check_next_run' = now + CheckTicks

\* lines 316-318 and the return to the caller who of check_new_files: main
\* (line 337) goes on to the monitoring loop; the scheduler reschedules the
\* job and goes on with the report job if it was due
AfterLoop(who, f, d, index) ==
    /\ status_reporter' =
         [UpdateStats(status_reporter, f, d, now) EXCEPT !.current_index = index]
    /\ stats_log' = Append(stats_log, << f, d >>)
    /\ passes_returned' = passes_returned + 1
    /\ IF who = "main"
       THEN /\ pc' = "loop"
            /\ UNCHANGED check_next_run
       ELSE /\ pc' = IF now >= report_next_run THEN "report" ELSE "sleep"
            /\ check_next_run' = now + CheckTicks

\* the locals of check_new_files while it is not running
NoLocals ==
    /\ files_found' = 0
    /\ files_downloaded' = 0
    /\ ext_pos' = 1

\* lines 291-298: check_new_files is entered; when the cursor is already
\* past END_INDEX the loop body does not run
EnterPass(who) ==
    /\ caller' = who
    /\ NoLocals
    /\ passes_started' = passes_started + 1
    /\ pass' = [state |-> IF current_index <= END_INDEX
                          THEN "running" ELSE "returned",
                start |-> current_index, handled |-> { }]
    /\ io' = << "log_info", "log_info" >>
    /\ last' = NoCall
    /\ IF current_index <= END_INDEX
       THEN /\ pc' = "scan"
            /\ UNCHANGED << status_reporter, stats_log, passes_returned,
                            check_next_run >>
       ELSE AfterLoop(who, 0, 0, current_index)
    /\ UNCHANGED << config, current_index, found_files, dir, exit_code, now,
                    report_next_run, present_left, downloaded_ok,
                    failed_downloads >>

\* main, line 337: the initial check
InitialCheck ==
    /\ pc = "initial"
    /\ EnterPass("main")

\* a scheduler that runs the check job at every run_pending
RunCheckJobAlways ==
    /\ pc = "loop"
    /\ EnterPass("schedule")

\* schedule.run_pending(), the check job is due
RunCheckJob ==
    /\ pc = "loop"
    /\ now >= check_next_run
    /\ EnterPass("schedule")

\* what the history keeps of a check_file_exists call
CheckRecord(c) == [exc |-> c.exc, exists |-> c.exists, size |-> c.size]

\* what the history keeps of one process_file call whose outcome is r and
\* after which the counts of the pass are f and d
CallRecord(index, ext, probe, dl, post_ok, r, f, d) ==
    [called |-> TRUE, index |-> index, ext |-> ext,
     seen |-> Url(Filename(index, ext)) \in found_files,
     failed_before |-> Url(Filename(index, ext)) \in failed_downloads,
     probed |-> r.probed,
     probe |-> IF r.probed THEN probe ELSE TransportFailure,
     check |-> IF r.probed
               THEN CheckRecord(CheckFileExists(probe, CHAT_ID, post_ok))
               ELSE NoCall.check,
     dl_called |-> r.dl_called,
     dl |-> IF r.dl_called THEN dl ELSE GetFailure,
     dl_ok |-> r.dl_ok,
     ret |-> r.ret,
     d_found |-> f - files_found,
     d_downloaded |-> d - files_downloaded,
     raised |-> r.exc]

\* the answers the environment can give to the candidate at the cursor: none
\* is asked for when its URL is in the seen-set, and a download is attempted
\* only when check_file_exists reports the file
ProbeChoices ==
    IF Url(Filename(current_index, SUPPORTED_EXTENSIONS[ext_pos])) \in found_files
    THEN { TransportFailure }
    ELSE { p \in ProbeOutcomes : p.status = 200 => present_left > 0 }

DownloadChoices(probe) ==
    IF Url(Filename(current_index, SUPPORTED_EXTENSIONS[ext_pos])) \notin found_files
       /\ CheckTry(probe).exists
    THEN DownloadOutcomes
    ELSE { GetFailure }

\* a counting that counts every process_file call
CountEveryCall(n, hit) == n + 1

\* lines 301-304: the counting of a result (found, downloaded)
Count(n, hit) == IF hit THEN n + 1 ELSE n

\* an exception e out of process_file leaves check_new_files and reaches
\* main (lines 347-352)
Propagate(r, post_ok) ==
    /\ IF MainCatches(r.exc)
       THEN /\ io' = r.io \o << "log_error" >>
                     \o SendTelegramMessage(CHAT_ID, post_ok)
                     \o << "log_info" >>
            /\ exit_code' = << 0 >>
       ELSE /\ io' = r.io \o << "log_info" >>
            /\ exit_code' = << 1 >>
    /\ pc' = "stopped"
    /\ UNCHANGED << files_found, files_downloaded, ext_pos, current_index,
                    status_reporter, stats_log, passes_returned,
                    check_next_run >>

\* a loop that resets the cursor and goes on without the break of line 314
CountAndAdvanceNoBreak(r, f, d) ==
    /\ io' = r.io
    /\ UNCHANGED exit_code
    /\ files_found' = f
    /\ files_downloaded' = d
    /\ UNCHANGED << pc, status_reporter, stats_log, passes_returned,
                    check_next_run >>
    /\ IF ext_pos < Len(SUPPORTED_EXTENSIONS)
       THEN /\ ext_pos' = ext_pos + 1
            /\ UNCHANGED current_index
       ELSE /\ ext_pos' = 1
            /\ current_index' = IF current_index + 1 > END_INDEX
                                THEN START_INDEX ELSE current_index + 1

\* lines 301-314: the result r of process_file is counted; after the last
\* extension of an index the cursor moves on, and past END_INDEX it is
\* reset, the loop is left and lines 316-318 run
CountAndAdvance(r, f, d) ==
    /\ io' = r.io
             \o (IF ext_pos = Len(SUPPORTED_EXTENSIONS)
                    /\ current_index + 1 > END_INDEX
                 THEN << "log_info" >> ELSE << >>)
    /\ UNCHANGED exit_code
    /\ IF ext_pos < Len(SUPPORTED_EXTENSIONS)
       THEN /\ ext_pos' = ext_pos + 1
            /\ files_found' = f
            /\ files_downloaded' = d
            /\ UNCHANGED << current_index, pc, status_reporter, stats_log,
                            passes_returned, check_next_run >>
       ELSE IF current_index + 1 > END_INDEX
       THEN /\ current_index' = START_INDEX
            /\ AfterLoop(caller, f, d, START_INDEX)
            /\ NoLocals
       ELSE /\ current_index' = current_index + 1
            /\ ext_pos' = 1
            /\ files_found' = f
            /\ files_downloaded' = d
            /\ UNCHANGED << pc, status_reporter, stats_log, passes_returned,
                            check_next_run >>

\* one process_file call of the pass, with outcome r, and what follows it
Candidate(ext, probe, dl, post_ok, r) ==
    /\ present_left' =
         IF r.probed /\ probe.kind = "response" /\ probe.status = 200
         THEN present_left - 1 ELSE present_left
    /\ found_files' = r.found_files
    /\ dir' = r.dir
    /\ downloaded_ok' =
         IF r.dl_ok
         THEN downloaded_ok \cup { Url(Filename(current_index, ext)) }
         ELSE downloaded_ok
    /\ failed_downloads' =
         IF r.dl_called /\ r.exc = NoExc /\ ~r.dl_ok
         THEN failed_downloads \cup { Url(Filename(current_index, ext)) }
         ELSE failed_downloads
    /\ pass' =
         [state |-> IF r.exc = NoExc
                       /\ ext_pos = Len(SUPPORTED_EXTENSIONS)
                       /\ current_index + 1 > END_INDEX
                    THEN "returned" ELSE "running",
          start |-> pass.start,
          handled |-> pass.handled \cup
             { [index |-> current_index, pos |-> ext_pos,
                probed |-> r.probed, ret |-> r.ret,
                failed |-> r.probed /\ (~r.ret[1] \/ ~r.ret[2])] }]
    /\ IF r.exc # NoExc
       THEN Propagate(r, post_ok)
       ELSE CountAndAdvance(r, Count(files_found, r.ret[1]),
                            Count(files_downloaded, r.ret[1] /\ r.ret[2]))
    /\ last' = CallRecord(current_index, ext, probe, dl, post_ok, r,
                          Count(files_found, r.ret[1]),
                          Count(files_downloaded, r.ret[1] /\ r.ret[2]))

\* lines 299-314: one candidate of the pass, process_file and the counting
\* of its result, with the loop control that follows it
ScanStep ==
    /\ pc = "scan"
    /\ \E probe \in ProbeChoices, post_ok \in BOOLEAN :
       \E dl \in DownloadChoices(probe) :
         Candidate(SUPPORTED_EXTENSIONS[ext_pos], probe, dl, post_ok,
                   ProcessFile(found_files, dir, current_index,
                               SUPPORTED_EXTENSIONS[ext_pos], probe, dl,
                               CHAT_ID, post_ok))
    /\ UNCHANGED << config, caller, now, report_next_run, passes_started >>

\* send_status_report (lines 285-288), run by the scheduler when the report
\* job is due: in run_pending after the check job, or alone
RunReportJob ==
    /\ \/ pc = "report"
       \/ pc = "loop" /\ now < check_next_run /\ now >= report_next_run
    /\ \E post_ok \in BOOLEAN : io' = SendTelegramMessage(CHAT_ID, post_ok)
    /\ report_next_run' = now + ReportTicks
    /\ pc' = "sleep"
    /\ last' = NoCall
    /\ UNCHANGED << config, current_index, found_files, status_reporter,
                    files_found, files_downloaded, ext_pos, dir, caller,
                    exit_code, now, check_next_run, present_left,
                    passes_started, passes_returned, stats_log, pass,
                    downloaded_ok, failed_downloads >>

\* time.sleep(1) (line 342), after a run_pending that ran its due jobs or
\* found none due
Sleep ==
    /\ \/ pc = "sleep"
       \/ pc = "loop" /\ now < check_next_run /\ now < report_next_run
    /\ now < MaxTime
    /\ now' = now + 1
    /\ pc' = "loop"
    /\ io' = << >>
    /\ last' = NoCall
    /\ pass' = NoPass
    /\ UNCHANGED << config, current_index, found_files, status_reporter,
                    files_found, files_downloaded, ext_pos, dir, caller,
                    exit_code, check_next_run, report_next_run, present_left,
                    passes_started, passes_returned, stats_log,
                    downloaded_ok, failed_downloads >>

\* a handler of KeyboardInterrupt that logs and sends nothing
InterruptSilent ==
    /\ pc \in { "initial", "scan", "loop", "report", "sleep" }
    /\ io' = << "log_info", "log_info" >>
    /\ pc' = "stopped"
    /\ exit_code' = << 0 >>
    /\ last' = NoCall
    /\ UNCHANGED << config, current_index, found_files, status_reporter,
                    files_found, files_downloaded, ext_pos, dir, caller, now,
                    check_next_run, report_next_run, present_left,
                    passes_started, passes_returned, stats_log, pass,
                    downloaded_ok, failed_downloads >>

\* KeyboardInterrupt (lines 344-346, 351-352) while main is running: the
\* shutdown message is sent and main returns
Interrupt ==
    /\ pc \in { "initial", "scan", "loop", "report", "sleep" }
    /\ \E post_ok \in BOOLEAN :
         io' = << "log_info" >> \o SendTelegramMessage(CHAT_ID, post_ok)
               \o << "log_info" >>
    /\ pc' = "stopped"
    /\ exit_code' = << 0 >>
    /\ last' = NoCall
    /\ UNCHANGED << config, current_index, found_files, status_reporter,
                    files_found, files_downloaded, ext_pos, dir, caller, now,
                    check_next_run, report_next_run, present_left,
                    passes_started, passes_returned, stats_log, pass,
                    downloaded_ok, failed_downloads >>

Next ==
    \/ Startup
    \/ InitialCheck
    \/ RunCheckJob
    \/ ScanStep
    \/ RunReportJob
    \/ Sleep
    \/ Interrupt

Spec == Init /\ [][Next]_vars

\* ============================================================== properties
\* the configuration passed validate_config
Validated ==
    ValidateConfig(BOT_TOKEN, CHAT_ID, MONITOR_TOKEN, START_INDEX, END_INDEX,
                   SUPPORTED_EXTENSIONS) = NoExc

\* main is in its monitoring loop and no pass is running
Idle == pc \in { "loop", "report", "sleep" }

InRange(i) == START_INDEX <= i /\ i <= END_INDEX

\* the URL of the last process_file call
LastUrl == Url(Filename(last.index, last.ext))

NetworkEvents == { "head", "get", "post" }

Events(t) == { t[i] : i \in 1 .. Len(t) }

\* C1: for every validated configuration the cursor lies in
\* [START_INDEX, END_INDEX] whenever a candidate is processed and whenever
\* the monitor is idle between passes, and no candidate outside the range
\* is probed.
C1_CursorInRange ==
    Validated =>
        /\ pc = "scan" \/ Idle => InRange(current_index)
        /\ last.probed => InRange(last.index)

\* C2: a process_file call for a URL that is in the seen-set issues no
\* probe, no notification and no download, performs no network call and
\* returns (False, False).
C2_SeenNeverProbedAgain ==
    last.called /\ last.seen =>
        /\ ~last.probed
        /\ ~last.dl_called
        /\ last.ret = << FALSE, FALSE >>
        /\ Events(io) \cap (NetworkEvents \cup { "send", "write" }) = { }
        /\ last.d_found = 0 /\ last.d_downloaded = 0

C2_Witness ==
    last.called /\ last.seen /\ passes_started = 2

\* the download outcomes of C3: a status other than 200, a transport failure
\* of the request, or a transport failure while the body is fetched
DownloadFails(dl) ==
    \/ dl.kind = "transport"
    \/ dl.kind = "response" /\ dl.status # 200
    \/ dl.kind = "response" /\ dl.status = 200
       /\ ContentLength(dl.clen).exc = NoExc /\ ~dl.body_ok

\* C3: a candidate that the probe reports present and whose download fails
\* is counted as found and not as downloaded, its URL stays out of the
\* seen-set, and a later process_file call for it probes it again and
\* attempts the download again when the probe reports it present.
C3_FailedDownloadRetried ==
    /\ last.called /\ last.dl_called /\ DownloadFails(last.dl) =>
          /\ last.ret = << TRUE, FALSE >>
          /\ last.d_found = 1
          /\ last.d_downloaded = 0
          /\ LastUrl \notin found_files
    /\ last.called /\ last.failed_before /\ ~last.seen =>
          /\ last.probed
          /\ "head" \in Events(io)
          /\ last.check.exists => last.dl_called /\ "get" \in Events(io)

C3_Witness ==
    /\ last.called /\ last.failed_before /\ last.dl_called
    /\ DownloadFails(last.dl)
    /\ last.dl.kind = "response" /\ last.dl.status = 200
    /\ passes_started = 2

\* C4: the seen-set is exactly the set of URLs for which download_file has
\* returned True (so it never loses an element), and a candidate whose
\* download succeeds is counted as found and as downloaded.
C4_SeenSetIsDownloaded ==
    /\ found_files = downloaded_ok
    /\ last.called /\ last.dl_ok =>
          /\ last.ret = << TRUE, TRUE >>
          /\ last.d_found = 1
          /\ last.d_downloaded = 1
          /\ LastUrl \in found_files
    /\ last.called /\ ~last.seen /\ ~last.dl_ok => LastUrl \notin found_files

C4_Witness ==
    Cardinality(found_files) = 2 /\ last.called /\ last.dl_ok

\* what the candidates handled in the pass add up to
PassFound == Cardinality({ h \in pass.handled : h.ret[1] })

PassDownloaded == Cardinality({ h \in pass.handled : h.ret[1] /\ h.ret[2] })

\* check_new_files has just returned
Returned == pass.state = "returned"

\* C5: every check_new_files call that returns has called update_stats
\* exactly once, after the loop, with the counts of the pass, also when both
\* are zero and when the loop body did not run; after k passes
\* checks_performed = k and the reporter's current_index is the cursor.
C5_StatsOncePerPass ==
    /\ Len(stats_log) = passes_returned
    /\ status_reporter.checks_performed = passes_returned
    /\ pc = "scan" => passes_started = passes_returned + 1
    /\ pc \in { "initial", "boot" } => passes_started = 0 /\ passes_returned = 0
    /\ Idle =>
          /\ passes_started = passes_returned
          /\ passes_returned >= 1
          /\ status_reporter.current_index = current_index
    /\ Returned =>
          /\ pc = "stopped" \/ Idle
          /\ passes_started = passes_returned
          /\ stats_log[Len(stats_log)] = << PassFound, PassDownloaded >>

C5_Witness ==
    /\ Idle /\ Returned /\ passes_returned = 2
    /\ END_INDEX < 0
    /\ stats_log[2] = << 0, 0 >>

\* the candidate at index i, position p of the extension list, was handled
\* in this pass: probed, or skipped with its URL in the seen-set
Handled(i, p) ==
    \E h \in pass.handled :
        /\ h.index = i /\ h.pos = p
        /\ h.probed \/ Url(Filename(i, SUPPORTED_EXTENSIONS[p])) \in found_files

\* C6: no failure on a candidate leaves check_new_files, and a pass that
\* began at cursor c handles every candidate from c to END_INDEX: each is
\* probed unless its URL is in the seen-set.
C6_FailureNeverAbortsPass ==
    /\ last.raised = NoExc
    /\ Returned =>
          \A i \in pass.start .. END_INDEX :
              \A p \in 1 .. Len(SUPPORTED_EXTENSIONS) : Handled(i, p)
    /\ pc = "scan" =>
          \A i \in pass.start .. current_index :
              \A p \in 1 .. Len(SUPPORTED_EXTENSIONS) :
                  i < current_index \/ p < ext_pos => Handled(i, p)

C6_Witness ==
    /\ Idle /\ Returned
    /\ \E h, g \in pass.handled :
          /\ h.failed /\ g.probed
          /\ h.index < g.index \/ (h.index = g.index /\ h.pos < g.pos)
    /\ \E h \in pass.handled :
          h.probed /\ h.ret = << FALSE, FALSE >> /\ h.index < END_INDEX

\* what one step does to the download directory
NewPaths == DOMAIN dir' \ DOMAIN dir

C7_Step ==
    /\ \A p \in DOMAIN dir : p \in DOMAIN dir' /\ dir'[p] = dir[p]
    /\ Cardinality(NewPaths) <= 1
    /\ \A p \in NewPaths :
          /\ last'.dl_called
          /\ p.index = last'.index /\ p.ext = last'.ext
          /\ \A k \in 0 .. (p.k - 1) :
                Path(Filename(p.index, p.ext), k) \in DOMAIN dir

\* C7: download_file never writes to a path that exists: every file of the
\* directory keeps its content, and a download creates the requested name
\* when it is free and otherwise name_k.ext for the smallest k >= 1 that is
\* free.
C7_NeverOverwrites == [][C7_Step]_vars

\* file_0.ext was there before the run and two downloads created
\* file_0_1.ext and then file_0_2.ext
C7_Witness ==
    \E e \in { SUPPORTED_EXTENSIONS[1] } :
        LET f == Filename(0, e)
        IN  /\ DOMAIN dir = { Path(f, 0), Path(f, 1), Path(f, 2) }
            /\ dir[Path(f, 0)] = "old"
            /\ dir[Path(f, 1)] # "old"
            /\ dir[Path(f, 2)] = "body"
            /\ last.dl_called

\* C8: check_file_exists returns (True, size) only for status 200, returns
\* (False, 0) for every other status and for every transport failure, and
\* raises in none of these cases.
C8_ProbeFailsToNotFound ==
    last.called /\ last.probed =>
        /\ last.check.exists =>
              /\ last.probe.kind = "response" /\ last.probe.status = 200
              /\ last.check.exc = NoExc
              /\ last.check.size = ContentLength(last.probe.clen).val
        /\ last.probe.kind = "transport" \/ last.probe.status # 200 =>
              last.check = [exc |-> NoExc, exists |-> FALSE, size |-> 0]

C8_Witness ==
    last.called /\ last.probed /\ last.probe.kind = "transport"
    /\ last.check = [exc |-> NoExc, exists |-> FALSE, size |-> 0]

\* C9: with CHAT_ID zero, send_telegram_message logs an error, makes no
\* network call and does not send again, and print_status with
\* notify_telegram=True only logs.
C9_NoRecipientNoNetwork ==
    /\ CHAT_ID = 0 =>
          /\ "post" \notin Events(io)
          /\ \A i \in 1 .. Len(io) :
                io[i] = "send" =>
                    /\ i < Len(io) /\ io[i + 1] = "log_error"
                    /\ \A j \in 1 .. Len(io) : io[j] = "send" => j = i
    /\ \A e \in BOOLEAN, ok \in BOOLEAN :
          /\ SendTelegramMessage(0, ok) = << "send", "log_error" >>
          /\ "send" \notin Events(PrintStatus(e, TRUE, 0, ok))
          /\ "post" \notin Events(PrintStatus(e, TRUE, 0, ok))

C9_Witness ==
    CHAT_ID = 0 /\ pc = "stopped" /\ "send" \in Events(io)

\* the sum of the j-th arguments of the first n update_stats calls
RECURSIVE SumOf(_, _, _)
SumOf(log, j, n) == IF n = 0 THEN 0 ELSE SumOf(log, j, n - 1) + log[n][j]

C10_Sums ==
    /\ status_reporter.files_found = SumOf(stats_log, 1, Len(stats_log))
    /\ status_reporter.files_downloaded = SumOf(stats_log, 2, Len(stats_log))
    /\ status_reporter.checks_performed = Len(stats_log)
    /\ Len(stats_log) > 0 <=> status_reporter.last_check_time # << >>

C10_NoDecrease ==
    /\ status_reporter'.files_found >= status_reporter.files_found
    /\ status_reporter'.files_downloaded >= status_reporter.files_downloaded
    /\ status_reporter'.checks_performed >= status_reporter.checks_performed

\* C10: after n calls update_stats(f_i, d_i) files_found is the sum of the
\* f_i, files_downloaded the sum of the d_i, checks_performed is n and
\* last_check_time is set; the counters never decrease.
C10_CountersAreSums == [](C10_Sums) /\ [][C10_NoDecrease]_vars

C10_Witness ==
    /\ Len(stats_log) = 2
    /\ stats_log[1][1] >= 1 /\ stats_log[2][1] >= 1
    /\ status_reporter.files_found = 2

\* ================================================================ scenario
\* The scenario of the specification: START_INDEX = 0, END_INDEX = 2,
\* SUPPORTED_EXTENSIONS = "txt", and a remote that serves file_1.txt and
\* nothing else.
ScenarioExtensions == Split(<< "t", "x", "t" >>)

ScenarioFile == Filename(1, ScenarioExtensions[1])

\* the answer of the remote to requests.head: 200 with a size for
\* file_1.txt, 404 for every other name
ScenarioProbe(index, ext) ==
    IF Filename(index, ext) = ScenarioFile
    THEN [kind |-> "response", status |-> 200,
          clen |-> [present |-> TRUE, numeric |-> TRUE, val |-> 5]]
    ELSE [kind |-> "response", status |-> 404, clen |-> NoHeader]

\* the answer of the remote to requests.get for file_1.txt: the download
\* succeeds
ScenarioDownload ==
    [kind |-> "response", status |-> 200,
     clen |-> [present |-> TRUE, numeric |-> TRUE, val |-> 5],
     body_ok |-> TRUE, zero_time |-> FALSE]

\* the last process_file call was answered by the remote of the scenario
ScenarioAnswers ==
    /\ last.probed => last.probe = ScenarioProbe(last.index, last.ext)
    /\ last.dl_called => last.dl = ScenarioDownload

\* the download directory before the run: empty, or holding files of earlier
\* runs under the names of the scenario
ScenarioDirs ==
    { [p \in P |-> "old"] :
        P \in { { },
                { Path(Filename(0, ScenarioExtensions[1]), 0) },
                { Path(ScenarioFile, 0) },
                { Path(ScenarioFile, 0), Path(ScenarioFile, 1) } } }

ScenarioInit ==
    /\ BOT_TOKEN = EnvStr(<< "k" >>)
    /\ CHAT_ID = 7
    /\ MONITOR_TOKEN = EnvStr(<< "k" >>)
    /\ START_INDEX = 0
    /\ END_INDEX = 2
    /\ SUPPORTED_EXTENSIONS = ScenarioExtensions
    /\ dir \in ScenarioDirs
    /\ current_index = 0
    /\ found_files = { }
    /\ status_reporter = NewStatusReporter
    /\ files_found = 0
    /\ files_downloaded = 0
    /\ ext_pos = 1
    /\ pc = "boot"
    /\ caller = "main"
    /\ exit_code = << >>
    /\ now = 0
    /\ check_next_run = 0
    /\ report_next_run = 0
    /\ present_left = MaxPresent
    /\ io = << >>
    /\ last = NoCall
    /\ passes_started = 0
    /\ passes_returned = 0
    /\ stats_log = << >>
    /\ pass = NoPass
    /\ downloaded_ok = { }
    /\ failed_downloads = { }

\* one candidate of the pass, answered by the remote of the scenario
ScenarioScanStep == ScanStep /\ ScenarioAnswers'

ScenarioNext ==
    \/ Startup
    \/ InitialCheck
    \/ RunCheckJob
    \/ ScenarioScanStep
    \/ RunReportJob
    \/ Sleep
    \/ Interrupt

ScenarioSpec == ScenarioInit /\ [][ScenarioNext]_vars

\* the indices of the candidates the pass has handled
HandledIndices == { h.index : h \in pass.handled }

\* C11: in the scenario the first pass probes index 0 (not found), index 1
\* (found and downloaded) and index 2 (not found) in that order, and leaves
\* the cursor at 0, files_found = 1, files_downloaded = 1,
\* checks_performed = 1 and exactly the URL of file_1.txt in the seen-set.
C11_ScenarioFirstPass ==
    /\ passes_started = 1 /\ last.called =>
          /\ last.probed
          /\ last.index \in 0 .. 2
          /\ HandledIndices = 0 .. last.index
          /\ Cardinality(pass.handled) = last.index + 1
          /\ last.index = 1 =>
                /\ last.check.exists /\ last.dl_called /\ last.dl_ok
                /\ last.ret = << TRUE, TRUE >>
          /\ last.index # 1 =>
                /\ ~last.check.exists /\ ~last.dl_called
                /\ last.ret = << FALSE, FALSE >>
    /\ passes_started = 1 /\ passes_returned = 1 =>
          /\ current_index = 0
          /\ status_reporter.files_found = 1
          /\ status_reporter.files_downloaded = 1
          /\ status_reporter.checks_performed = 1
          /\ status_reporter.current_index = 0
          /\ found_files = { Url(ScenarioFile) }

C11_Witness ==
    /\ Idle /\ Returned
    /\ passes_started = 1 /\ passes_returned = 1
    /\ HandledIndices = 0 .. 2
    /\ last.called /\ last.index = 2 /\ last.probed
    /\ found_files = { Url(ScenarioFile) }

\* a step that enters check_new_files
PassStarts == passes_started' = passes_started + 1

\* a step that runs send_status_report: the report job is rescheduled
ReportRuns == pc # "boot" /\ report_next_run' # report_next_run

C12_Order ==
    /\ pc \in { "boot", "initial" } => now = 0 /\ passes_started = 0
    /\ pc \in { "initial", "scan" } \/ Idle =>
          /\ check_next_run >= CheckTicks
          /\ report_next_run >= ReportTicks
    /\ Idle => passes_returned >= 1
    /\ Idle /\ now < CheckTicks => passes_started = 1 /\ passes_returned = 1
    /\ passes_started <= 1 + (now \div CheckTicks)
    /\ passes_started = 1 /\ passes_returned = 0 =>
          now = 0 /\ report_next_run = ReportTicks

C12_Step ==
    /\ PassStarts =>
          \/ /\ pc = "initial" /\ passes_started = 0 /\ now = 0
             /\ report_next_run = ReportTicks
          \/ /\ pc = "loop" /\ passes_returned >= 1
             /\ now >= check_next_run
    /\ ReportRuns =>
          /\ pc \in { "loop", "report" }
          /\ passes_returned >= 1 /\ passes_started = passes_returned
          /\ now >= report_next_run
          /\ report_next_run' = now + ReportTicks
    /\ pc # "boot" /\ check_next_run' # check_next_run =>
          /\ passes_returned' = passes_returned + 1
          /\ caller' = "schedule"
          /\ check_next_run' = now + CheckTicks
    /\ pc = "stopped" => ~PassStarts /\ ~ReportRuns /\ pc' = "stopped"

\* C12: after a successful validation main performs exactly one pass at
\* once, before the first tick and before any status report; afterwards a
\* pass is entered only when the check interval has elapsed and a report is
\* sent only when the report interval has elapsed, each at most once per
\* tick, and neither after main has stopped.
C12_DriverOrder == [](C12_Order) /\ [][C12_Step]_vars

C12_Witness ==
    /\ pc = "sleep" /\ now = CheckTicks + 1
    /\ passes_started = 2 /\ passes_returned = 2
    /\ status_reporter.last_check_time = << CheckTicks >>
    /\ report_next_run = now + ReportTicks

\* main is running: validation passed and main has not returned
Running == pc \in { "initial", "scan" } \/ Idle

\* the positions of the send_telegram_message calls in the I/O of a step
Sends(t) == { i \in 1 .. Len(t) : t[i] = "send" }

ScanEvents == { "head", "get", "write" }

\* C13: main leaves its running state only by a KeyboardInterrupt or by an
\* exception out of a pass or a report; it then calls send_telegram_message
\* once, after the last probe, download and write, and returns whether or
\* not the message could be posted.
C13_FinalNotification ==
    /\ Running => exit_code = << >>
    /\ Validated /\ pc = "stopped" =>
          /\ exit_code # << >>
          /\ last.raised # NoExc \/ (Len(io) >= 2 /\ io[1] = "log_info"
                                      /\ io[2] = "send")
          /\ Sends(io) # { }
          /\ \A i \in Sends(io) :
                (\A j \in Sends(io) : j <= i) =>
                    /\ \A k \in (i + 1) .. Len(io) : io[k] \notin ScanEvents
                    /\ i < Len(io) /\ io[i + 1] = "post"
                    /\ i = 1 \/ io[i - 1] \in { "log_info", "log_error" }
          /\ last.raised = NoExc => Cardinality(Sends(io)) = 1
          /\ io[Len(io)] = "log_info"

\* a pass was interrupted after it had handled a candidate, and the shutdown
\* message could not be posted
C13_Witness ==
    /\ Validated /\ pc = "stopped" /\ exit_code = << 0 >>
    /\ pass.state = "running" /\ pass.handled # { }
    /\ io = << "log_info", "send", "post", "log_error", "log_info" >>

\* C14: main ends with exit status 0 only when a KeyboardInterrupt ended the
\* run, after the shutdown message was attempted; when validate_config
\* raises the process ends with a status other than 0.
C14_ExitStatus ==
    pc = "stopped" =>
        /\ exit_code = << 0 >> =>
              Validated /\ io[1] = "log_info" /\ "send" \in Events(io)
        /\ ~Validated => exit_code # << 0 >>

\* the configurations of C15; SUPPORTED_EXTENSIONS configured as the empty
\* string is the list that line 25 makes of it
Rejected ==
    \/ ~BOT_TOKEN.set
    \/ CHAT_ID = 0
    \/ ~MONITOR_TOKEN.set
    \/ START_INDEX > END_INDEX
    \/ SUPPORTED_EXTENSIONS = Split(<< >>)

\* C15: for every configuration without a bot token, without a recipient,
\* without a monitoring token, with START_INDEX > END_INDEX or with an empty
\* extension list, validate_config raises, no FileMonitor is constructed,
\* no startup message is sent and no pass or probe ever runs.
C15_InvalidConfigNeverStarts ==
    Rejected =>
        /\ ~Validated
        /\ pc \in { "boot", "stopped" }
        /\ pc = "stopped" => io[1] = "log_error"
        /\ passes_started = 0
        /\ ~last.called

\* the candidates of the indices a .. b, as (index, position of the extension)
Positions(a, b) ==
    { << i, p >> : i \in a .. b, p \in 1 .. Len(SUPPORTED_EXTENSIONS) }

HandledPositions == { << h.index, h.pos >> : h \in pass.handled }

\* the candidates that come before (i, p) in the order of the two loops
Before(i, p) == { q \in Positions(pass.start, i) : q[1] < i \/ q[2] < p }

\* the number of candidates the running pass has still to handle
Remaining ==
    IF pc = "scan"
    THEN (END_INDEX - current_index) * Len(SUPPORTED_EXTENSIONS)
         + (Len(SUPPORTED_EXTENSIONS) - ext_pos + 1)
    ELSE 0

C16_Once ==
    /\ pc = "scan" =>
          /\ pass.state = "running"
          /\ pass.start <= current_index /\ current_index <= END_INDEX
          /\ ext_pos \in 1 .. Len(SUPPORTED_EXTENSIONS)
          /\ HandledPositions = Before(current_index, ext_pos)
          /\ Cardinality(pass.handled) = Cardinality(HandledPositions)
          /\ ENABLED ScanStep
    /\ Returned /\ pass.start <= END_INDEX =>
          /\ pc # "scan"
          /\ HandledPositions = Positions(pass.start, END_INDEX)
          /\ Cardinality(pass.handled) = Cardinality(HandledPositions)
          /\ current_index = START_INDEX

C16_Step ==
    pc = "scan" =>
        \/ pc' = "stopped"
        \/ /\ Remaining' = Remaining - 1
           /\ Remaining' = 0 <=> pass'.state = "returned"
           /\ pass'.handled =
                 pass.handled \cup
                 { h \in pass'.handled :
                      h.index = current_index /\ h.pos = ext_pos }

\* C16: every pass terminates: each network call of a candidate returns or
\* fails, every step of the pass handles one more candidate, a pass begun
\* at cursor c <= END_INDEX handles each index c .. END_INDEX once with
\* each configured extension once, then resets the cursor to START_INDEX
\* and returns.
C16_PassTerminates == [](C16_Once) /\ [][C16_Step]_vars

C16_Witness ==
    /\ Idle /\ Returned
    /\ pass.start < END_INDEX
    /\ START_INDEX # pass.start /\ current_index = START_INDEX
    /\ Len(SUPPORTED_EXTENSIONS) = 2
    /\ Cardinality(pass.handled) = 2 * (END_INDEX - pass.start + 1)

\* the positions of the event e in the I/O of a step
At(t, e) == { i \in 1 .. Len(t) : t[i] = e }

\* the candidate handled just before the cursor
Previous ==
    IF ext_pos > 1
    THEN << current_index, ext_pos - 1 >>
    ELSE << current_index - 1, Len(SUPPORTED_EXTENSIONS) >>

\* C17: a pass handles its candidates one after the other, by ascending
\* index and within an index in the order of SUPPORTED_EXTENSIONS; for one
\* candidate the probe comes first, then, only when the file exists, the
\* new-file message, then the download request, then the file is written
\* and the message of the download's completion or failure is sent; the
\* next candidate is probed after that.
C17_SequentialOrder ==
    /\ pc = "scan" /\ last.called =>
          /\ last.index = Previous[1]
          /\ last.ext = SUPPORTED_EXTENSIONS[Previous[2]]
          /\ \A q \in HandledPositions :
                q[1] < current_index \/ (q[1] = current_index /\ q[2] < ext_pos)
    /\ last.called =>
          /\ Cardinality(At(io, "head")) = IF last.probed THEN 1 ELSE 0
          /\ Cardinality(At(io, "get")) = IF last.dl_called THEN 1 ELSE 0
          /\ Cardinality(At(io, "write")) <= 1
          /\ \A h \in At(io, "head") :
                \A i \in 1 .. (h - 1) : io[i] = "log_info"
          /\ last.dl_called <=> last.probed /\ last.check.exists
          /\ ~last.dl_called => At(io, "write") = { }
          /\ \A h \in At(io, "head"), g \in At(io, "get") :
                /\ h < g
                /\ \E s \in At(io, "send") :
                      /\ h < s /\ s < g /\ io[s + 1] = "post"
                      /\ \A t \in At(io, "send") : t < g => t = s
                /\ \A w \in At(io, "write") : g < w
                /\ \E s \in At(io, "send") :
                      /\ g < s /\ io[s + 1] = "post"
                      /\ \A w \in At(io, "write") : w < s
                      /\ \A t \in At(io, "send") : g < t => t = s

C17_Witness ==
    /\ pc = "scan" /\ last.called /\ last.dl_ok
    /\ ext_pos = 1 /\ Len(SUPPORTED_EXTENSIONS) = 2
    /\ SUPPORTED_EXTENSIONS[1] # SUPPORTED_EXTENSIONS[2]
    /\ Cardinality(pass.handled) = 2
    /\ At(io, "write") # { }

\* C18: files_downloaded never exceeds files_found; between passes
\* files_downloaded is the number of URLs in the seen-set, and during a pass
\* it is that number less the downloads the pass has counted so far; a call
\* counts a download only for a URL that was not in the seen-set, so no URL
\* is counted twice as downloaded.
C18_DownloadedIsSeenSet ==
    /\ status_reporter.files_downloaded <= status_reporter.files_found
    /\ files_downloaded <= files_found
    /\ Idle => status_reporter.files_downloaded = Cardinality(found_files)
    /\ pc = "scan" =>
          status_reporter.files_downloaded + files_downloaded
              = Cardinality(found_files)
    /\ last.called /\ last.d_downloaded = 1 =>
          /\ ~last.seen
          /\ last.d_found = 1
          /\ LastUrl \in found_files

\* one URL was found in two passes and downloaded in the second
C18_Witness ==
    /\ Idle
    /\ status_reporter.files_found = 2
    /\ status_reporter.files_downloaded = 1
    /\ Cardinality(found_files) = 1
    /\ found_files = failed_downloads

\* C19: a download that does not succeed leaves the download directory as
\* it was: a process_file call that does not add its URL to the seen-set
\* creates and writes no file, and every file the process created belongs
\* to a URL of the seen-set.
C19_FailedDownloadLeavesNoFile ==
    /\ last.called /\ ~last.dl_ok => "write" \notin Events(io)
    /\ \A p \in DOMAIN dir :
          dir[p] # "old" => Url(Filename(p.index, p.ext)) \in found_files

\* C20: for every validated configuration every pass that returns has
\* handled every candidate of [START_INDEX, END_INDEX]: each one whose URL
\* is not in the seen-set was probed in that pass, so that a file that stays
\* on the server is probed again until its download succeeds.
C20_EveryCandidateProbedEveryPass ==
    Validated /\ Returned =>
        \A i \in START_INDEX .. END_INDEX :
            \A p \in 1 .. Len(SUPPORTED_EXTENSIONS) : Handled(i, p)

====
